---- MODULE Spec2Model ----
(***************************************************************************)
(* ubiattach (ubi-utils/src/ubiattach.c): parse the command line, open     *)
(* libubi, check that the kernel supports attaching, issue one attach      *)
(* request, query the new UBI device and print a summary.                  *)
(*                                                                         *)
(* The command line is a sequence of items as getopt_long() delivers them: *)
(* an option together with its argument, a flag, or a non-option word.     *)
(* Strings are kept in the form strtoul() reads them: sign, magnitude in   *)
(* 16-bit limbs (least significant first), and what follows the number.    *)
(***************************************************************************)
EXTENDS Integers, Sequences, FiniteSets, TLC

\* Longest command line (in items) of the general family.
MaxArgs == 4
\* Longest command line of the family that exercises number conversion.
MaxNumArgs == 2
\* Longest command line of the family that exercises the VID offset option.
MaxOptArgs == 4
\* The kernel assigns UBI device numbers 0..MaxDevs.
MaxDevs == 2

\* libubi.h: #define UBI_DEV_NUM_AUTO (-1)
UBI_DEV_NUM_AUTO == -1


(***************************************************************************)
(* Strings                                                                 *)
(***************************************************************************)
Str(txt, neg, dig, mag, rest) ==
    [txt |-> txt, neg |-> neg, dig |-> dig, mag |-> mag, rest |-> rest]

Zero5 == <<0, 0, 0, 0, 0>>

\* A limb holds 16 bits; a magnitude has five limbs (up to 2^80 - 1).
Limb == 256 * 256
NLimbs == Len(Zero5)

\* The null pointer (optarg before any option, or after a flag under glibc).
NULL == Str("(null)", FALSE, FALSE, Zero5, FALSE)

S0        == Str("0", FALSE, TRUE, Zero5, FALSE)
S5        == Str("5", FALSE, TRUE, <<5, 0, 0, 0, 0>>, FALSE)
S7        == Str("7", FALSE, TRUE, <<7, 0, 0, 0, 0>>, FALSE)
SEmpty    == Str("", FALSE, FALSE, Zero5, FALSE)
STrail    == Str("5x", FALSE, TRUE, <<5, 0, 0, 0, 0>>, TRUE)
SNeg      == Str("-5", TRUE, TRUE, <<5, 0, 0, 0, 0>>, FALSE)
\* -(2^32 - 5)
SNegWrap  == Str("-4294967291", TRUE, TRUE, <<65531, 65535, 0, 0, 0>>, FALSE)
\* 2^31
S2p31     == Str("2147483648", FALSE, TRUE, <<0, 32768, 0, 0, 0>>, FALSE)
\* 2^32 - 1
S2p32m1   == Str("4294967295", FALSE, TRUE, <<65535, 65535, 0, 0, 0>>, FALSE)
\* 2^32 + 5
S2p32p5   == Str("4294967301", FALSE, TRUE, <<5, 0, 1, 0, 0>>, FALSE)
\* 2^64 + 5
S2p64p5   == Str("18446744073709551621", FALSE, TRUE, <<5, 0, 0, 0, 1>>, FALSE)
Node      == Str("/dev/ubi_ctrl", FALSE, FALSE, Zero5, TRUE)

(***************************************************************************)
(* strtoul(nptr, &endp, 0) and the conversion of its result to int         *)
(***************************************************************************)
\* The magnitude fits in an unsigned long of n limbs.
Fits(mag, n) == \A i \in 1..NLimbs : i > n => mag[i] = 0

RECURSIVE NegLimbs(_, _, _, _)
\* Two's complement of the first n limbs of mag, from limb i with carry c.
NegLimbs(mag, n, i, c) ==
    IF i > n THEN <<>>
    ELSE LET t == (Limb - 1 - mag[i]) + c
         IN <<t % Limb>> \o NegLimbs(mag, n, i + 1, t \div Limb)

\* strtoul: the value (n limbs), whether any character was consumed
\* (endp != nptr) and whether endp points at the terminating NUL.
strtoul(s, n) ==
    IF ~s.dig
    THEN [val |-> [i \in 1..n |-> 0], consumed |-> FALSE, atEnd |-> ~s.rest]
    ELSE [val |-> IF ~Fits(s.mag, n) THEN [i \in 1..n |-> Limb - 1]
                  ELSE IF s.neg THEN NegLimbs(s.mag, n, 1, 1)
                  ELSE [i \in 1..n |-> s.mag[i]],
          consumed |-> TRUE,
          atEnd |-> ~s.rest]

\* unsigned long -> int: the low 32 bits, read as two's complement.
ToInt(val) ==
    IF val[2] >= Limb \div 2 THEN (val[2] - Limb) * Limb + val[1]
    ELSE val[2] * Limb + val[1]

(***************************************************************************)
(* Command lines                                                           *)
(***************************************************************************)
\* k: "d", "m" (-d/--devn, -m/--mtdn with argument arg), "o" (--vid-hdr-offset
\* with argument arg), "o_short" (-o, which the option string "m:d:ohV"
\* declares without argument), "h", "V", "unknown" (any option getopt_long
\* does not know), "noarg" (an option that requires an argument as the last
\* element of argv) and "word" (a non-option element, text in arg).
Item(k, arg) == [k |-> k, arg |-> arg]

GeneralItems ==
    {Item("m", S5), Item("m", STrail), Item("d", S7), Item("d", SNeg),
     Item("o", S7), Item("o", S0), Item("o_short", NULL), Item("h", NULL),
     Item("V", NULL), Item("unknown", NULL), Item("word", Node)}

NumStrs ==
    {S0, S5, SEmpty, STrail, SNeg, SNegWrap, S2p31, S2p32m1, S2p32p5, S2p64p5}

NumItems ==
    {Item("m", s) : s \in NumStrs} \cup {Item("d", s) : s \in NumStrs}
    \cup {Item("o", s) : s \in NumStrs} \cup {Item("word", Node)}

OptItems ==
    {Item("o_short", NULL), Item("o", S7), Item("m", S5), Item("word", Node),
     Item("word", S7)}

SeqsUpTo(S, n) == UNION {[1..k -> S] : k \in 0..n}

CommandLines ==
    SeqsUpTo(GeneralItems, MaxArgs)
    \cup {Append(a, Item("noarg", NULL)) : a \in SeqsUpTo(GeneralItems, MaxArgs - 1)}
    \cup {Append(a, Item("word", Node)) : a \in SeqsUpTo(NumItems, MaxNumArgs)}
    \cup SeqsUpTo(OptItems, MaxOptArgs)

(***************************************************************************)
(* State                                                                   *)
(***************************************************************************)
VARIABLES
    argv,        \* the command line (argv[1..argc-1]) as items
    ulong_limbs, \* width of unsigned long in limbs: 2 (ILP32) or 4 (LP64)
    pc,          \* position in main()/parse_opt()
    optind,      \* next item getopt_long will look at (item index, not argv index)
    optarg,      \* getopt's optarg
    keys,        \* the keys getopt_long has returned so far
    myargs,      \* struct args myargs
    err,         \* main's err
    libubi,      \* main's libubi: "unset", "NULL", "open", "closed"
    ubi_info,    \* main's ubi_info
    req,         \* main's req
    dev_info,    \* main's dev_info
    trace,       \* the calls made so far, each with its result
    sent,        \* the attach requests as passed to ubi_attach_mtd
    queried,     \* the device numbers passed to ubi_get_dev_info1
    out,         \* what was written to stderr/stdout
    status       \* exit status of the process (meaningful when pc = "exit")

vars == <<argv, ulong_limbs, pc, optind, optarg, keys, myargs, err, libubi,
          ubi_info, req, dev_info, trace, sent, queried, out, status>>

Init ==
    /\ argv \in CommandLines
    /\ ulong_limbs \in {2, 4}
    /\ pc = "parse_opt"
    /\ optind = 1
    /\ optarg = NULL
    /\ keys = <<>>
    /\ myargs = [devn |-> UBI_DEV_NUM_AUTO, mtdn |-> -1, vidoffs |-> 0, node |-> NULL]
    /\ err = 0
    /\ libubi = "unset"
    /\ ubi_info = [ctrl_major |-> 0]
    /\ req = [dev_num |-> 0, mtd_num |-> 0, vid_hdr_offset |-> 0]
    /\ dev_info = [dev_num |-> 0]
    /\ trace = <<>>
    /\ sent = <<>>
    /\ queried = <<>>
    /\ out = <<>>
    /\ status = 0

(***************************************************************************)
(* Helpers of the actions                                                  *)
(***************************************************************************)
Call(tr, fn, ret) == Append(tr, [fn |-> fn, ret |-> ret])

\* errmsg(): "ubiattach: error!: ..." on stderr.
errmsg(o, msg) == Append(o, msg)

\* The exit status the parent sees for exit(code) / return code from main.
ExitStatus(code) == code % 256

\* getopt_long: the next element that is an option, 0 when none is left.
\* Non-option words are passed over (and moved behind the options).
NextOpt(a, i) ==
    IF \E j \in i..Len(a) : a[j].k # "word"
    THEN CHOOSE j \in i..Len(a) :
            /\ a[j].k # "word"
            /\ \A l \in i..(j - 1) : a[l].k = "word"
    ELSE 0

\* The non-option words of the command line, in order: argv[optind..argc-1]
\* once getopt_long has returned -1.
Words(a) == SelectSeq(a, LAMBDA it : it.k = "word")

\* case 'd': the test after strtoul.
bad_devn(r, n) == ~r.atEnd \/ ~r.consumed \/ n < 0

\* case 'm': the test after strtoul.
bad_mtdn(r, n) == ~r.atEnd \/ ~r.consumed \/ n < 0

bad_vidoffs_lt(r, n) == ~r.atEnd \/ ~r.consumed \/ n < 0

\* case 'o': the test after strtoul.
bad_vidoffs(r, n) == ~r.atEnd \/ ~r.consumed \/ n <= 0

opt_exit_all_fail(key) == -1

\* case 'h', case 'V', default: the argument of exit().
opt_exit(key) == IF key \in {"h", "V"} THEN 0 ELSE -1

failed_positive(e) == e > 0

\* if (err) in main.
failed(e) == e # 0

supported_always(info) == FALSE

\* if (ubi_info.ctrl_major == -1)
unsupported(info) == info.ctrl_major = -1

main_return_zero(ok) == 0

\* main's return value: 0 at the end of the success path, -1 elsewhere.
main_return(ok) == IF ok THEN 0 ELSE -1

\* req.dev_num = myargs.devn; req.mtd_num = myargs.mtdn; ...
attach_request(args) ==
    [dev_num |-> args.devn, mtd_num |-> args.mtdn, vid_hdr_offset |-> args.vidoffs]

dev_info_arg_cmdline(args, r) == args.devn

\* The device number main passes to ubi_get_dev_info1.
dev_info_arg(args, r) == r.dev_num

libubi_close_forgotten(tr) == tr

\* libubi_close(libubi)
libubi_close(tr) == Call(tr, "libubi_close", 0)

\* libubi's ubi_attach_mtd on success: the number of the created device is
\* written back to req->dev_num (n is the number the kernel picked).
attach_writeback(r, n) ==
    [r EXCEPT !.dev_num = IF r.dev_num = UBI_DEV_NUM_AUTO THEN n ELSE r.dev_num]

(***************************************************************************)
(* parse_opt                                                               *)
(***************************************************************************)
\* parse_opt returns ret to main: err = parse_opt(argc, argv).
ParseReturn(ret) ==
    /\ err' = ret
    /\ trace' = Call(trace, "parse_opt", ret)
    /\ pc' = "main_166"
    /\ status' = status

ParseContinue ==
    /\ UNCHANGED <<err, trace, pc, status, out>>

ParseOpt_d ==
    /\ pc = "parse_opt"
    /\ NextOpt(argv, optind) # 0
    /\ LET i == NextOpt(argv, optind)
           r == strtoul(argv[i].arg, ulong_limbs)
           n == ToInt(r.val)
       IN /\ argv[i].k = "d"
          /\ optind' = i + 1
          /\ optarg' = argv[i].arg
          /\ keys' = Append(keys, "d")
          /\ myargs' = [myargs EXCEPT !.devn = n]
          /\ IF bad_devn(r, n)
             THEN /\ out' = errmsg(out, "bad UBI device number")
                  /\ ParseReturn(-1)
             ELSE ParseContinue
    /\ UNCHANGED <<argv, ulong_limbs, libubi, ubi_info, req, dev_info, sent, queried>>

ParseOpt_m ==
    /\ pc = "parse_opt"
    /\ NextOpt(argv, optind) # 0
    /\ LET i == NextOpt(argv, optind)
           r == strtoul(argv[i].arg, ulong_limbs)
           n == ToInt(r.val)
       IN /\ argv[i].k = "m"
          /\ optind' = i + 1
          /\ optarg' = argv[i].arg
          /\ keys' = Append(keys, "m")
          /\ myargs' = [myargs EXCEPT !.mtdn = n]
          /\ IF bad_mtdn(r, n)
             THEN /\ out' = errmsg(out, "bad MTD device number")
                  /\ ParseReturn(-1)
             ELSE ParseContinue
    /\ UNCHANGED <<argv, ulong_limbs, libubi, ubi_info, req, dev_info, sent, queried>>

\* case 'o' once optarg is known to point at a string.
Case_o(s) ==
    LET r == strtoul(s, ulong_limbs)
        n == ToInt(r.val)
    IN /\ myargs' = [myargs EXCEPT !.vidoffs = n]
       /\ IF bad_vidoffs(r, n)
          THEN /\ out' = errmsg(out, "bad VID header offset")
               /\ ParseReturn(-1)
          ELSE ParseContinue

\* --vid-hdr-offset=<arg>: has_arg = 1 in long_options.
ParseOpt_o_long ==
    /\ pc = "parse_opt"
    /\ NextOpt(argv, optind) # 0
    /\ LET i == NextOpt(argv, optind)
       IN /\ argv[i].k = "o"
          /\ optind' = i + 1
          /\ optarg' = argv[i].arg
          /\ keys' = Append(keys, "o")
          /\ Case_o(argv[i].arg)
    /\ UNCHANGED <<argv, ulong_limbs, libubi, ubi_info, req, dev_info, sent, queried>>

\* -o: the option string "m:d:ohV" gives 'o' no argument, so getopt_long
\* does not set optarg to an argument.  optarg is then NULL (glibc clears
\* it on every call) or still what the previous option left in it, and
\* strtoul(optarg, ...) reads it: a null pointer kills the process with
\* SIGSEGV (status 128 + 11 as a shell reports it).
ParseOpt_o_short ==
    /\ pc = "parse_opt"
    /\ NextOpt(argv, optind) # 0
    /\ LET i == NextOpt(argv, optind)
       IN /\ argv[i].k = "o_short"
          /\ optind' = i + 1
          /\ keys' = Append(keys, "o")
          /\ optarg' \in {NULL, optarg}
          /\ IF optarg' = NULL
             THEN /\ pc' = "exit"
                  /\ status' = 128 + 11
                  /\ UNCHANGED <<myargs, err, trace, out>>
             ELSE Case_o(optarg')
    /\ UNCHANGED <<argv, ulong_limbs, libubi, ubi_info, req, dev_info, sent, queried>>

\* case 'h', case 'V' and default ('?': unknown option, or a missing
\* argument; the option string does not start with ':', so getopt_long
\* never returns ':' and case ':' is never taken).
ParseOpt_exit ==
    /\ pc = "parse_opt"
    /\ NextOpt(argv, optind) # 0
    /\ LET i == NextOpt(argv, optind)
           key == IF argv[i].k \in {"h", "V"} THEN argv[i].k ELSE "?"
       IN /\ argv[i].k \in {"h", "V", "unknown", "noarg"}
          /\ optind' = i + 1
          /\ keys' = Append(keys, key)
          /\ out' = Append(out, CASE key = "h" -> "help"
                                  [] key = "V" -> "version"
                                  [] OTHER -> "Use -h for help")
          /\ status' = ExitStatus(opt_exit(key))
          /\ pc' = "exit"
    /\ UNCHANGED <<argv, ulong_limbs, optarg, myargs, err, libubi, ubi_info, req,
                   dev_info, trace, sent, queried>>

\* getopt_long returned -1: the checks behind the loop.
ParseOpt_end ==
    /\ pc = "parse_opt"
    /\ NextOpt(argv, optind) = 0
    /\ optind' = Len(argv) + 1
    /\ LET w == Words(argv)
       IN IF Len(w) = 0
          THEN /\ out' = errmsg(out, "UBI control device name was not specified")
               /\ myargs' = myargs
               /\ ParseReturn(-1)
          ELSE IF Len(w) # 1
          THEN /\ out' = errmsg(out, "more then one UBI control device specified")
               /\ myargs' = myargs
               /\ ParseReturn(-1)
          ELSE IF myargs.mtdn = -1
          THEN /\ out' = errmsg(out, "MTD device number was not specified")
               /\ myargs' = myargs
               /\ ParseReturn(-1)
          ELSE /\ myargs' = [myargs EXCEPT !.node = w[1]]
               /\ out' = out
               /\ ParseReturn(0)
    /\ UNCHANGED <<argv, ulong_limbs, optarg, keys, libubi, ubi_info, req, dev_info,
                   sent, queried>>

(***************************************************************************)
(* main                                                                    *)
(***************************************************************************)
\* err = parse_opt(argc, argv); if (err) return -1;
Main_parse_check ==
    /\ pc = "main_166"
    /\ IF failed(err)
       THEN /\ pc' = "exit"
            /\ status' = ExitStatus(main_return(FALSE))
       ELSE /\ pc' = "libubi_open"
            /\ status' = status
    /\ UNCHANGED <<argv, ulong_limbs, optind, optarg, keys, myargs, err, libubi,
                   ubi_info, req, dev_info, trace, sent, queried, out>>

\* libubi = libubi_open(); the library returns a handle or NULL.
Main_libubi_open ==
    /\ pc = "libubi_open"
    /\ \E h \in {"NULL", "open"} :
        /\ libubi' = h
        /\ trace' = Call(trace, "libubi_open", IF h = "NULL" THEN 0 ELSE 1)
        /\ IF h = "NULL"
           THEN /\ out' = errmsg(out, "cannot open libubi")
                /\ pc' = "exit"
                /\ status' = ExitStatus(main_return(FALSE))
           ELSE /\ out' = out
                /\ pc' = "ubi_get_info"
                /\ status' = status
    /\ UNCHANGED <<argv, ulong_limbs, optind, optarg, keys, myargs, err, ubi_info,
                   req, dev_info, sent, queried>>

\* err = ubi_get_info(libubi, &ubi_info) and the two tests behind it.
Main_ubi_get_info ==
    /\ pc = "ubi_get_info"
    /\ \E e \in {0, -1}, major \in {-1, 10} :
        /\ err' = e
        /\ trace' = Call(trace, "ubi_get_info", e)
        /\ ubi_info' = IF e = 0 THEN [ctrl_major |-> major] ELSE ubi_info
        /\ IF failed(e)
           THEN /\ out' = errmsg(out, "cannot get UBI information")
                /\ pc' = "out_libubi"
           ELSE IF unsupported(ubi_info')
           THEN /\ out' = errmsg(out, "MTD attach/detach feature is not supported by your kernel")
                /\ pc' = "out_libubi"
           ELSE /\ out' = out
                /\ pc' = "ubi_attach_mtd"
    /\ UNCHANGED <<argv, ulong_limbs, optind, optarg, keys, myargs, libubi, req,
                   dev_info, sent, queried, status>>

\* Fill req, err = ubi_attach_mtd(libubi, myargs.node, &req).
Main_ubi_attach_mtd ==
    /\ pc = "ubi_attach_mtd"
    /\ \E e \in {0, -1}, n \in 0..MaxDevs :
        LET r == attach_request(myargs)
        IN /\ sent' = Append(sent, [node |-> myargs.node, req |-> r])
           /\ err' = e
           /\ trace' = Call(trace, "ubi_attach_mtd", e)
           /\ req' = IF e = 0 THEN attach_writeback(r, n) ELSE r
           /\ IF failed(e)
              THEN /\ out' = errmsg(out, "cannot attach mtd")
                   /\ pc' = "out_libubi"
              ELSE /\ out' = out
                   /\ pc' = "ubi_get_dev_info1"
    /\ UNCHANGED <<argv, ulong_limbs, optind, optarg, keys, myargs, libubi,
                   ubi_info, dev_info, queried, status>>

\* err = ubi_get_dev_info1(libubi, req.dev_num, &dev_info).
Main_ubi_get_dev_info1 ==
    /\ pc = "ubi_get_dev_info1"
    /\ \E e \in {0, -1} :
        LET d == dev_info_arg(myargs, req)
        IN /\ queried' = Append(queried, d)
           /\ err' = e
           /\ trace' = Call(trace, "ubi_get_dev_info1", e)
           /\ dev_info' = IF e = 0 THEN [dev_num |-> d] ELSE dev_info
           /\ IF failed(e)
              THEN /\ out' = errmsg(out, "cannot get information about newly created UBI device")
                   /\ pc' = "out_libubi"
              ELSE /\ out' = out
                   /\ pc' = "print"
    /\ UNCHANGED <<argv, ulong_limbs, optind, optarg, keys, myargs, libubi,
                   ubi_info, req, sent, status>>

\* printf("UBI device number %d, ..."); libubi_close(libubi); return 0;
Main_print ==
    /\ pc = "print"
    /\ out' = Append(out, "UBI device number")
    /\ trace' = libubi_close(trace)
    /\ libubi' = IF trace' = trace THEN libubi ELSE "closed"
    /\ status' = ExitStatus(main_return(TRUE))
    /\ pc' = "exit"
    /\ UNCHANGED <<argv, ulong_limbs, optind, optarg, keys, myargs, err, ubi_info,
                   req, dev_info, sent, queried>>

\* out_libubi: libubi_close(libubi); return -1;
Main_out_libubi ==
    /\ pc = "out_libubi"
    /\ trace' = libubi_close(trace)
    /\ libubi' = IF trace' = trace THEN libubi ELSE "closed"
    /\ status' = ExitStatus(main_return(FALSE))
    /\ pc' = "exit"
    /\ UNCHANGED <<argv, ulong_limbs, optind, optarg, keys, myargs, err, ubi_info,
                   req, dev_info, sent, queried, out>>

Next ==
    \/ ParseOpt_d
    \/ ParseOpt_m
    \/ ParseOpt_o_long
    \/ ParseOpt_o_short
    \/ ParseOpt_exit
    \/ ParseOpt_end
    \/ Main_parse_check
    \/ Main_libubi_open
    \/ Main_ubi_get_info
    \/ Main_ubi_attach_mtd
    \/ Main_ubi_get_dev_info1
    \/ Main_print
    \/ Main_out_libubi

Spec == Init /\ [][Next]_vars

(***************************************************************************)
(* Vocabulary of the properties                                            *)
(***************************************************************************)
Called(fn) == {i \in 1..Len(trace) : trace[i].fn = fn}

Returned(fn, ret) == \E i \in 1..Len(trace) : trace[i] = [fn |-> fn, ret |-> ret]

LibraryCalls == {i \in 1..Len(trace) : trace[i].fn # "parse_opt"}

Printed(msg) == {i \in 1..Len(out) : out[i] = msg}

Summary == "UBI device number"

\* The step recorded in entry e failed.
StepFailed(e) ==
    \/ e.fn = "libubi_open" /\ e.ret = 0
    \/ e.fn \in {"parse_opt", "ubi_get_info", "ubi_attach_mtd", "ubi_get_dev_info1"}
       /\ e.ret # 0

\* getopt_long has delivered -h/--help or -V/--version.
HelpVersionRun == keys # <<>> /\ keys[Len(keys)] \in {"h", "V"}

Has(k) == \E i \in 1..Len(argv) : argv[i].k = k

\* The argument of the last occurrence of option k.
LastArg(k) ==
    argv[CHOOSE i \in 1..Len(argv) :
            argv[i].k = k /\ \A j \in (i + 1)..Len(argv) : argv[j].k # k].arg

\* The string s is the decimal numeral of the integer n (0 <= n < 2^31).
ValueIs(s, n) ==
    /\ s.dig /\ ~s.rest /\ ~s.neg
    /\ n >= 0
    /\ s.mag = <<n % Limb, n \div Limb, 0, 0, 0>>

\* The string s is the numeral of a positive integer that fits in an int.
PositiveInt(s) ==
    /\ s.dig /\ ~s.rest /\ ~s.neg
    /\ s.mag[1] + s.mag[2] > 0
    /\ s.mag[2] < Limb \div 2
    /\ s.mag[3] = 0 /\ s.mag[4] = 0 /\ s.mag[5] = 0

\* -d/-m argument: empty, not a number to its end, or negative as an int.
BadNumber(s) ==
    LET r == strtoul(s, ulong_limbs)
    IN ~r.consumed \/ ~r.atEnd \/ ToInt(r.val) < 0

\* VID header offset argument: malformed or not strictly positive.
BadOffset(s) ==
    LET r == strtoul(s, ulong_limbs)
    IN ~r.consumed \/ ~r.atEnd \/ ToInt(r.val) < 1

InvalidCommandLine ==
    \/ ~Has("m")
    \/ Len(Words(argv)) # 1
    \/ \E i \in 1..Len(argv) : argv[i].k \in {"d", "m"} /\ BadNumber(argv[i].arg)
    \/ \E i \in 1..Len(argv) : argv[i].k = "o" /\ BadOffset(argv[i].arg)

(***************************************************************************)
(* C1                                                                      *)
(***************************************************************************)
\* C1: the calls happen in one fixed order, each gated on the success of the
\* one before it: libubi_open only after parse_opt returned 0, ubi_get_info
\* only after libubi_open returned a handle, ubi_attach_mtd only after
\* ubi_get_info returned 0 with ctrl_major != -1, ubi_get_dev_info1 only after
\* ubi_attach_mtd returned 0, the summary only after ubi_get_dev_info1
\* returned 0; after a failed step nothing but libubi_close is executed.
C1_CallOrder ==
    /\ \A i \in 1..Len(trace) :
        LET e == trace[i]
            prev(fn, ret) == i > 1 /\ trace[i - 1] = [fn |-> fn, ret |-> ret]
        IN /\ e.fn = "parse_opt" => i = 1
           /\ e.fn = "libubi_open" => prev("parse_opt", 0)
           /\ e.fn = "ubi_get_info" => prev("libubi_open", 1)
           /\ e.fn = "ubi_attach_mtd" =>
                prev("ubi_get_info", 0) /\ ubi_info.ctrl_major # -1
           /\ e.fn = "ubi_get_dev_info1" => prev("ubi_attach_mtd", 0)
           /\ StepFailed(e) =>
                \A j \in (i + 1)..Len(trace) : trace[j].fn = "libubi_close"
    /\ Printed(Summary) # {} => Returned("ubi_get_dev_info1", 0)
    /\ (Returned("ubi_get_info", 0) /\ ubi_info.ctrl_major = -1) => sent = <<>>

\* A whole run: all five steps were made and the summary printed.
C1_Witness ==
    /\ pc = "exit"
    /\ Len(trace) = 6
    /\ trace[5] = [fn |-> "ubi_get_dev_info1", ret |-> 0]
    /\ Printed(Summary) # {}

(***************************************************************************)
(* C2                                                                      *)
(***************************************************************************)
ParseMessages ==
    {"bad UBI device number", "bad MTD device number", "bad VID header offset",
     "UBI control device name was not specified",
     "more then one UBI control device specified",
     "MTD device number was not specified"}

\* C2: when a step fails (parse_opt returns non-zero, libubi_open returns
\* NULL, ubi_get_info fails, the kernel reports ctrl_major = -1,
\* ubi_attach_mtd fails, ubi_get_dev_info1 fails) the program has reported
\* the error message of that step, ends with a non-zero exit status and does
\* not print the summary.
C2_ErrorPropagation ==
    pc = "exit" =>
        /\ Returned("parse_opt", -1) =>
             /\ \E m \in ParseMessages : Printed(m) # {}
             /\ status # 0 /\ Printed(Summary) = {}
        /\ Returned("libubi_open", 0) =>
             /\ Printed("cannot open libubi") # {}
             /\ status # 0 /\ Printed(Summary) = {}
        /\ Returned("ubi_get_info", -1) =>
             /\ Printed("cannot get UBI information") # {}
             /\ status # 0 /\ Printed(Summary) = {}
        /\ (Returned("ubi_get_info", 0) /\ ubi_info.ctrl_major = -1) =>
             /\ Printed("MTD attach/detach feature is not supported by your kernel") # {}
             /\ status # 0 /\ Printed(Summary) = {}
        /\ Returned("ubi_attach_mtd", -1) =>
             /\ Printed("cannot attach mtd") # {}
             /\ status # 0 /\ Printed(Summary) = {}
        /\ Returned("ubi_get_dev_info1", -1) =>
             /\ Printed("cannot get information about newly created UBI device") # {}
             /\ status # 0 /\ Printed(Summary) = {}

\* The unsupported-kernel case: ubi_get_info succeeded, ctrl_major = -1.
C2_Witness ==
    /\ pc = "exit"
    /\ Returned("ubi_get_info", 0)
    /\ ubi_info.ctrl_major = -1
    /\ status = 255

(***************************************************************************)
(* C3                                                                      *)
(***************************************************************************)
AllSucceeded ==
    /\ Len(trace) >= 5
    /\ trace[1] = [fn |-> "parse_opt", ret |-> 0]
    /\ trace[2] = [fn |-> "libubi_open", ret |-> 1]
    /\ trace[3] = [fn |-> "ubi_get_info", ret |-> 0]
    /\ ubi_info.ctrl_major # -1
    /\ trace[4] = [fn |-> "ubi_attach_mtd", ret |-> 0]
    /\ trace[5] = [fn |-> "ubi_get_dev_info1", ret |-> 0]
    /\ Len(sent) = 1

\* C3: at most one attach request is issued, and a run that is not a
\* help/version run ends with exit status 0 exactly when parse_opt,
\* libubi_open, ubi_get_info (with ctrl_major != -1), the one ubi_attach_mtd
\* and ubi_get_dev_info1 all succeeded; the summary is then printed once.
C3_OneAttachExitZero ==
    /\ Len(sent) <= 1
    /\ Cardinality(Called("ubi_attach_mtd")) = Len(sent)
    /\ (pc = "exit" /\ ~HelpVersionRun) =>
         /\ status = 0 <=> AllSucceeded
         /\ status = 0 => Cardinality(Printed(Summary)) = 1

\* A run that is not a help/version run and ends with status 0.
C3_Witness ==
    /\ pc = "exit"
    /\ ~HelpVersionRun
    /\ status = 0
    /\ Len(sent) = 1
    /\ Cardinality(Printed(Summary)) = 1

(***************************************************************************)
(* C7                                                                      *)
(***************************************************************************)
\* C7: where libubi_open returned a handle, libubi_close is called exactly
\* once before the program returns, on the success path and on every
\* out_libubi path; no library call follows the close; libubi_close is never
\* called where libubi_open was not called or returned NULL.
C7_HandleDiscipline ==
    /\ Cardinality(Called("libubi_close")) <= 1
    /\ \A i \in Called("libubi_close") :
         /\ i = Len(trace)
         /\ \E j \in 1..(i - 1) : trace[j] = [fn |-> "libubi_open", ret |-> 1]
    /\ (libubi = "closed") <=> (Called("libubi_close") # {})
    /\ (pc = "exit" /\ Returned("libubi_open", 1)) =>
         Cardinality(Called("libubi_close")) = 1

\* An out_libubi path: the attach failed and the handle was closed.
C7_Witness ==
    /\ pc = "exit"
    /\ Returned("ubi_attach_mtd", -1)
    /\ trace[Len(trace)].fn = "libubi_close"
    /\ libubi = "closed"

(***************************************************************************)
(* C8                                                                      *)
(***************************************************************************)
\* C8: ubi_get_dev_info1 is called with req.dev_num as ubi_attach_mtd left it,
\* not with the command-line value; when the request was sent with
\* UBI_DEV_NUM_AUTO the query uses the assigned number, never
\* UBI_DEV_NUM_AUTO.
C8_QueryAttachedDevice ==
    /\ Len(queried) <= 1
    /\ \A i \in 1..Len(queried) :
         /\ Len(sent) = 1
         /\ queried[i] = req.dev_num
         /\ sent[1].req.dev_num = UBI_DEV_NUM_AUTO =>
              queried[i] # UBI_DEV_NUM_AUTO /\ queried[i] >= 0
         /\ dev_info.dev_num = queried[i] \/ Returned("ubi_get_dev_info1", -1)

\* No -d: the request went out with UBI_DEV_NUM_AUTO and the query was made.
C8_Witness ==
    /\ Len(queried) = 1
    /\ ~Has("d")
    /\ sent[1].req.dev_num = UBI_DEV_NUM_AUTO
    /\ queried[1] # myargs.devn

(***************************************************************************)
(* C9                                                                      *)
(***************************************************************************)
\* C9: once option parsing reaches -h/--help or -V/--version the program
\* prints the help or version text and ends with exit status 0 without any
\* library call, whether or not -m or a control node was given and whatever
\* follows on the command line; an unrecognised option ends the program at
\* once with a non-zero status, also without any library call.
C9_HelpVersionShortCircuit ==
    /\ HelpVersionRun =>
         /\ pc = "exit" /\ status = 0
         /\ trace = <<>> /\ sent = <<>> /\ libubi = "unset"
         /\ out[Len(out)] = (IF keys[Len(keys)] = "h" THEN "help" ELSE "version")
    /\ (keys # <<>> /\ keys[Len(keys)] = "?") =>
         /\ pc = "exit" /\ status # 0
         /\ trace = <<>> /\ sent = <<>> /\ libubi = "unset"

\* -h reached on a command line without -m, with more items behind it.
C9_Witness ==
    /\ pc = "exit"
    /\ HelpVersionRun
    /\ ~Has("m")
    /\ optind <= Len(argv)
    /\ status = 0

RestIsValid(skip) ==
    LET rest == {i \in 1..Len(argv) : i \notin skip}
    IN /\ \A i \in rest : \/ argv[i].k = "word" /\ ~argv[i].arg.dig
                          \/ argv[i].k = "m" /\ PositiveInt(argv[i].arg)
       /\ \E i \in rest : argv[i].k = "m"
       /\ Cardinality({i \in rest : argv[i].k = "word"}) = 1

\* C4: with a valid -m and one control node, "-o n" and
\* "--vid-hdr-offset=n" (n a positive integer) both make parse_opt succeed
\* with vidoffs = n.
C4_BothSpellings ==
    pc # "parse_opt" =>
      \A i \in 1..Len(argv) :
        LET short == /\ argv[i].k = "o_short"
                     /\ i < Len(argv)
                     /\ argv[i + 1].k = "word"
                     /\ PositiveInt(argv[i + 1].arg)
                     /\ RestIsValid({i, i + 1})
            long  == /\ argv[i].k = "o"
                     /\ PositiveInt(argv[i].arg)
                     /\ RestIsValid({i})
            n     == IF argv[i].k = "o" THEN argv[i].arg ELSE argv[i + 1].arg
        IN (short \/ long) =>
             /\ Returned("parse_opt", 0)
             /\ ValueIs(n, myargs.vidoffs)

(***************************************************************************)
(* C5                                                                      *)
(***************************************************************************)
\* C5: the attach request is built from the options: mtd_num is the value
\* given with -m, dev_num the value given with -d or UBI_DEV_NUM_AUTO without
\* -d, vid_hdr_offset the value given with the VID header offset option or 0
\* without it, the node the single non-option argument; the last occurrence
\* of a repeated option counts.
C5_RequestFromOptions ==
    \A i \in 1..Len(sent) :
        LET r == sent[i].req
        IN /\ Has("m") /\ ValueIs(LastArg("m"), r.mtd_num)
           /\ IF Has("d") THEN ValueIs(LastArg("d"), r.dev_num)
              ELSE r.dev_num = UBI_DEV_NUM_AUTO
           /\ (~Has("o") /\ ~Has("o_short")) => r.vid_hdr_offset = 0
           /\ (Has("o") /\ ~Has("o_short")) => ValueIs(LastArg("o"), r.vid_hdr_offset)
           /\ Len(Words(argv)) = 1 /\ sent[i].node = Words(argv)[1]

(***************************************************************************)
(* C10                                                                     *)
(***************************************************************************)
\* C10: an argument of -m or -d whose value does not fit in a non-negative
\* int is rejected, so a request that is issued has mtd_num >= 0 equal to the
\* number written with -m, and dev_num either UBI_DEV_NUM_AUTO or >= 0 and
\* equal to the number written with -d.
C10_NoWrapAround ==
    \A i \in 1..Len(sent) :
        LET r == sent[i].req
        IN /\ r.mtd_num >= 0
           /\ Has("m") /\ ValueIs(LastArg("m"), r.mtd_num)
           /\ \/ r.dev_num = UBI_DEV_NUM_AUTO
              \/ /\ r.dev_num >= 0
                 /\ Has("d") /\ ValueIs(LastArg("d"), r.dev_num)

====
